---- MODULE Spec2Model ----
(***************************************************************************)
(* Model of the guest side of the GHCB MSR protocol (ghcb-msr-protocol).   *)
(*                                                                         *)
(* A u64 (and a u32) is modelled as the set of the positions of its set    *)
(* bits: 64-bit values do not fit the model checker's integers, and every  *)
(* operation the crate performs on them is a mask, a shift or an or.       *)
(* A u16 or a u8 is a natural number.  An enum variant is a string and its *)
(* discriminant a number, so that a conversion between the two is never    *)
(* the identity.                                                           *)
(***************************************************************************)
EXTENDS Naturals, FiniteSets

VARIABLES pc, args, req, msr, hv, raw, res, val, tres

vars == <<pc, args, req, msr, hv, raw, res, val, tres>>

----------------------------------------------------------------------------
(* Bounds of the model. *)

\* The most sampled bit positions set at once in a sampled 64-bit input.
MaxSetBits == 2

----------------------------------------------------------------------------
(* Machine arithmetic on bit sets. *)

U64Bits == 0..63

\* The bit set of a natural number below 2^16.
Bits(n) == {i \in 0..15 : (n \div (2 ^ i)) % 2 = 1}

\* The natural number of a bit set within the low 16 bits.
ToNat(s) ==
    LET f[i \in 0..16] ==
            IF i = 16 THEN 0
            ELSE (IF i \in s THEN 2 ^ i ELSE 0) + f[i + 1]
    IN f[0]

\* The mask with the low n bits set (0xfff is LowMask(12)).
LowMask(n) == {i \in U64Bits : i < n}

BitAnd(a, b) == a \cap b

BitOr(a, b) == a \cup b

\* a << k on a u64: bits shifted past bit 63 are lost.
Shl(a, k) == {i + k : i \in a} \cap U64Bits

\* a >> k on a u64.
Shr(a, k) == {i - k : i \in {j \in a : j >= k}}

\* `as u32`, `as u16`, `as u8`: truncation to the low bits.
AsU32(a) == a \cap LowMask(32)

AsU16(a) == ToNat(a \cap LowMask(16))

AsU8(a) == ToNat(a \cap LowMask(8))

----------------------------------------------------------------------------
(* GhcbMsrError and Result. *)

InvalidInfo == [kind |-> "InvalidInfo"]

MismatchedInfo == [kind |-> "MismatchedInfo"]

InvalidData == [kind |-> "InvalidData"]

MismatchedData(d) == [kind |-> "MismatchedData", data |-> d]

ShouldNotReturn == [kind |-> "ShouldNotReturn"]

Ok(v) == [ok |-> TRUE, v |-> v]

Err(e) == [ok |-> FALSE, e |-> e]

----------------------------------------------------------------------------
(* GhcbMsrInfo: the discriminants. *)

GHCB_GPA == 0

SEV_INFO_RESP == 1

SEV_INFO_REQ == 2

CPUID_REQ == 4

CPUID_RESP == 5

AP_RESET_HOLD_REQ == 6

AP_RESET_HOLD_RESP == 7

PREF_GHCB_GPA_REQ == 16

PREF_GHCB_GPA_RESP == 17

REG_GHCB_GPA_REQ == 18

REG_GHCB_GPA_RESP == 19

STATE_CHANGE_REQ == 20

STATE_CHANGE_RESP == 21

RUN_VMPL_REQ == 22

RUN_VMPL_RESP == 23

FEAT_SUPPORT_REQ == 128

FEAT_SUPPORT_RESP == 129

TERM_REQ == 256

\* The variants of the enum.
GhcbMsrInfo ==
    {"GHCB_GPA", "SEV_INFO_RESP", "SEV_INFO_REQ", "CPUID_REQ", "CPUID_RESP",
     "AP_RESET_HOLD_REQ", "AP_RESET_HOLD_RESP", "PREF_GHCB_GPA_REQ",
     "PREF_GHCB_GPA_RESP", "REG_GHCB_GPA_REQ", "REG_GHCB_GPA_RESP",
     "STATE_CHANGE_REQ", "STATE_CHANGE_RESP", "RUN_VMPL_REQ", "RUN_VMPL_RESP",
     "FEAT_SUPPORT_REQ", "FEAT_SUPPORT_RESP", "TERM_REQ"}

\* `variant as u16`: the discriminant of a variant.
AsDiscriminant(t) ==
    CASE t = "GHCB_GPA" -> GHCB_GPA
      [] t = "SEV_INFO_RESP" -> SEV_INFO_RESP
      [] t = "SEV_INFO_REQ" -> SEV_INFO_REQ
      [] t = "CPUID_REQ" -> CPUID_REQ
      [] t = "CPUID_RESP" -> CPUID_RESP
      [] t = "AP_RESET_HOLD_REQ" -> AP_RESET_HOLD_REQ
      [] t = "AP_RESET_HOLD_RESP" -> AP_RESET_HOLD_RESP
      [] t = "PREF_GHCB_GPA_REQ" -> PREF_GHCB_GPA_REQ
      [] t = "PREF_GHCB_GPA_RESP" -> PREF_GHCB_GPA_RESP
      [] t = "REG_GHCB_GPA_REQ" -> REG_GHCB_GPA_REQ
      [] t = "REG_GHCB_GPA_RESP" -> REG_GHCB_GPA_RESP
      [] t = "STATE_CHANGE_REQ" -> STATE_CHANGE_REQ
      [] t = "STATE_CHANGE_RESP" -> STATE_CHANGE_RESP
      [] t = "RUN_VMPL_REQ" -> RUN_VMPL_REQ
      [] t = "RUN_VMPL_RESP" -> RUN_VMPL_RESP
      [] t = "FEAT_SUPPORT_REQ" -> FEAT_SUPPORT_REQ
      [] t = "FEAT_SUPPORT_RESP" -> FEAT_SUPPORT_RESP
      [] t = "TERM_REQ" -> TERM_REQ

\* A plausible slip: the value is masked to the 12 bits of the Info field
\* before it is matched, so 0x1001 is taken for SEV_INFO_RESP.
GhcbMsrInfo_try_from_masked(v) ==
    LET m == v % 4096
    IN IF \E t \in GhcbMsrInfo : AsDiscriminant(t) = m
       THEN Ok(CHOOSE t \in GhcbMsrInfo : AsDiscriminant(t) = m)
       ELSE Err(InvalidInfo)

\* impl TryFrom<u16> for GhcbMsrInfo: the match arms in the source's order.
GhcbMsrInfo_try_from(v) ==
    CASE v = GHCB_GPA -> Ok("GHCB_GPA")
      [] v = SEV_INFO_RESP -> Ok("SEV_INFO_RESP")
      [] v = SEV_INFO_REQ -> Ok("SEV_INFO_REQ")
      [] v = CPUID_REQ -> Ok("CPUID_REQ")
      [] v = CPUID_RESP -> Ok("CPUID_RESP")
      [] v = AP_RESET_HOLD_REQ -> Ok("AP_RESET_HOLD_REQ")
      [] v = AP_RESET_HOLD_RESP -> Ok("AP_RESET_HOLD_RESP")
      [] v = PREF_GHCB_GPA_REQ -> Ok("PREF_GHCB_GPA_REQ")
      [] v = PREF_GHCB_GPA_RESP -> Ok("PREF_GHCB_GPA_RESP")
      [] v = REG_GHCB_GPA_REQ -> Ok("REG_GHCB_GPA_REQ")
      [] v = REG_GHCB_GPA_RESP -> Ok("REG_GHCB_GPA_RESP")
      [] v = STATE_CHANGE_REQ -> Ok("STATE_CHANGE_REQ")
      [] v = STATE_CHANGE_RESP -> Ok("STATE_CHANGE_RESP")
      [] v = RUN_VMPL_REQ -> Ok("RUN_VMPL_REQ")
      [] v = RUN_VMPL_RESP -> Ok("RUN_VMPL_RESP")
      [] v = FEAT_SUPPORT_REQ -> Ok("FEAT_SUPPORT_REQ")
      [] v = FEAT_SUPPORT_RESP -> Ok("FEAT_SUPPORT_RESP")
      [] v = TERM_REQ -> Ok("TERM_REQ")
      [] OTHER -> Err(InvalidInfo)

----------------------------------------------------------------------------
(* The split of the register value. *)

\* A plausible slip: the Info field taken as 8 bits wide.
parse_msr_byte(m) == <<AsU16(BitAnd(m, LowMask(8))), Shr(m, 8)>>

\* fn parse_msr(msr: u64) -> (u16, u64)
parse_msr(m) == <<AsU16(BitAnd(m, LowMask(12))), Shr(m, 12)>>

\* The packing of GhcbMsrRequest::msr, for a Data value d (a u64) and an
\* Info value i (a number): ((d & 0xfffffffffffff) << 12) | (i as u64 & 0xfff)
register_value(d, i) ==
    BitOr(Shl(BitAnd(d, LowMask(52)), 12), BitAnd(Bits(i), LowMask(12)))

----------------------------------------------------------------------------
(* The request constructors.  A request is its struct: the type's name,   *)
(* the data field and, for the three types that store it, the info field.  *)

\* enum CpuidReg, `reg as u64`
CpuidReg_as(reg) ==
    CASE reg = "EAX" -> 0
      [] reg = "EBX" -> 1
      [] reg = "ECX" -> 2
      [] reg = "EDX" -> 3

\* impl From<u8> for CpuidReg
CpuidReg_from(v) ==
    CASE v = 0 -> "EAX"
      [] v = 1 -> "EBX"
      [] v = 2 -> "ECX"
      [] v = 3 -> "EDX"
      [] OTHER -> "unreachable"

\* enum PageOp, `op as u64`
PageOp_as(op) ==
    CASE op = "Private" -> 1
      [] op = "Shared" -> 2

\* enum TerminationReason, `reason as u64`
TerminationReason_as(reason) ==
    CASE reason = "GeneralTermination" -> 1
      [] reason = "GhcbProtRangeNotSupported" -> 2
      [] reason = "SevSnpNotSupported" -> 3

SevInfoReq_new == [type |-> "SevInfoReq", data |-> {}]

\* A plausible slip: the register selector placed at bit 16.
CpuidReq_new_reg16(cpuid_function, reg) ==
    [type |-> "CpuidReq",
     data |-> BitOr(Shl(cpuid_function, 20), Shl(Bits(CpuidReg_as(reg)), 16))]

\* CpuidReq::new(cpuid_function: u32, reg: CpuidReg)
CpuidReq_new(cpuid_function, reg) ==
    [type |-> "CpuidReq",
     data |-> BitOr(Shl(cpuid_function, 20), Shl(Bits(CpuidReg_as(reg)), 18))]

ApResetHoldReq_new ==
    [type |-> "ApResetHoldReq", data |-> {}, info |-> "AP_RESET_HOLD_REQ"]

PrefGhcbGpaReq_new ==
    [type |-> "PrefGhcbGpaReq", data |-> {}, info |-> "PREF_GHCB_GPA_REQ"]

\* RegisterGhcbReq::new(gfn: u64)
RegisterGhcbReq_new(gfn) == [type |-> "RegisterGhcbReq", data |-> gfn]

\* PageStateReq::new(gfn: u64, op: PageOp)
PageStateReq_new(gfn, op) ==
    [type |-> "PageStateReq",
     data |-> BitOr(Shl(Bits(PageOp_as(op)), 40), gfn)]

\* RunVmplReq::new(vmpl: u8)
RunVmplReq_new(vmpl) ==
    [type |-> "RunVmplReq", data |-> Shl(Bits(vmpl), 20),
     info |-> "RUN_VMPL_REQ"]

FeatureSupportReq_new == [type |-> "FeatureSupportReq", data |-> {}]

\* TerminationReq::new(code_set: u8, reason: TerminationReason)
TerminationReq_new(code_set, reason) ==
    [type |-> "TerminationReq",
     data |-> BitOr(Shl(Bits(TerminationReason_as(reason)), 4),
                    Bits(code_set))]

----------------------------------------------------------------------------
(* GhcbMsrRequest: info(), data() and msr(). *)

\* fn info(&self) -> GhcbMsrInfo, per implementor.
info(r) ==
    CASE r.type = "SevInfoReq" -> "SEV_INFO_REQ"
      [] r.type = "CpuidReq" -> "CPUID_REQ"
      [] r.type = "ApResetHoldReq" -> r.info
      [] r.type = "PrefGhcbGpaReq" -> r.info
      [] r.type = "RegisterGhcbReq" -> "REG_GHCB_GPA_REQ"
      [] r.type = "PageStateReq" -> "STATE_CHANGE_REQ"
      [] r.type = "RunVmplReq" -> r.info
      [] r.type = "FeatureSupportReq" -> "FEAT_SUPPORT_REQ"
      [] r.type = "TerminationReq" -> "TERM_REQ"

\* fn data(&self) -> u64, the same for every implementor.
data(r) == r.data

\* fn msr(&self) -> u64
Msr(r) == register_value(data(r), AsDiscriminant(info(r)))

----------------------------------------------------------------------------
(* The response decoders: impl TryFrom<u64> for each response type. *)

\* A plausible slip: the encryption bit number read at its offset in the
\* raw register value (bit 24) instead of its offset in the Data field.
SevInfoResp_try_from_rawoffset(resp) ==
    LET p == parse_msr(resp)
        i == GhcbMsrInfo_try_from(p[1])
        d == p[2]
    IN IF ~i.ok THEN Err(i.e)
       ELSE IF i.v # "SEV_INFO_RESP" THEN Err(MismatchedInfo)
       ELSE Ok([max_ver |-> AsU16(BitAnd(Shr(d, 36), LowMask(16))),
                min_ver |-> AsU16(BitAnd(Shr(d, 20), LowMask(16))),
                enc_bit_no |-> AsU8(BitAnd(Shr(d, 24), LowMask(8)))])

SevInfoResp_try_from(resp) ==
    LET p == parse_msr(resp)
        i == GhcbMsrInfo_try_from(p[1])
        d == p[2]
    IN IF ~i.ok THEN Err(i.e)
       ELSE IF i.v # "SEV_INFO_RESP" THEN Err(MismatchedInfo)
       ELSE Ok([max_ver |-> AsU16(BitAnd(Shr(d, 36), LowMask(16))),
                min_ver |-> AsU16(BitAnd(Shr(d, 20), LowMask(16))),
                enc_bit_no |-> AsU8(BitAnd(Shr(d, 12), LowMask(8)))])

CpuidResp_try_from(resp) ==
    LET p == parse_msr(resp)
        i == GhcbMsrInfo_try_from(p[1])
        d == p[2]
    IN IF ~i.ok THEN Err(i.e)
       ELSE IF i.v # "CPUID_RESP" THEN Err(MismatchedInfo)
       ELSE IF BitAnd(d, LowMask(8)) # {} THEN Err(InvalidData)
       ELSE Ok([function |-> AsU32(BitAnd(Shr(d, 20), LowMask(32))),
                reg |-> CpuidReg_from(AsU8(BitAnd(Shr(d, 18), LowMask(2))))])

\* A plausible slip: any valid tag is accepted once the data is nonzero.
ApResetHoldResp_try_from_anytag(resp) ==
    LET p == parse_msr(resp)
        i == GhcbMsrInfo_try_from(p[1])
        d == p[2]
    IN IF ~i.ok THEN Err(i.e)
       ELSE IF d = {} THEN Err(InvalidData)
       ELSE IF i.v # "AP_RESET_HOLD_RESP" THEN Err(MismatchedInfo)
       ELSE Ok([marker |-> "ApResetHoldResp"])

\* A plausible slip: the zero-data check left out.
ApResetHoldResp_try_from_nocheck(resp) ==
    LET p == parse_msr(resp)
        i == GhcbMsrInfo_try_from(p[1])
    IN IF ~i.ok THEN Err(i.e)
       ELSE IF i.v # "AP_RESET_HOLD_RESP" THEN Err(MismatchedInfo)
       ELSE Ok([marker |-> "ApResetHoldResp"])

ApResetHoldResp_try_from(resp) ==
    LET p == parse_msr(resp)
        i == GhcbMsrInfo_try_from(p[1])
        d == p[2]
    IN IF ~i.ok THEN Err(i.e)
       ELSE IF i.v # "AP_RESET_HOLD_RESP" THEN Err(MismatchedInfo)
       ELSE IF d = {} THEN Err(InvalidData)
       ELSE Ok([marker |-> "ApResetHoldResp"])

PrefGhcbGpaResp_try_from(resp) ==
    LET p == parse_msr(resp)
        i == GhcbMsrInfo_try_from(p[1])
        d == p[2]
    IN IF ~i.ok THEN Err(i.e)
       ELSE IF i.v # "PREF_GHCB_GPA_RESP" THEN Err(MismatchedInfo)
       ELSE Ok([gfn |-> d])

RegisterGhcbResp_try_from(resp) ==
    LET p == parse_msr(resp)
        i == GhcbMsrInfo_try_from(p[1])
        d == p[2]
    IN IF ~i.ok THEN Err(i.e)
       ELSE IF i.v # "REG_GHCB_GPA_RESP" THEN Err(MismatchedInfo)
       ELSE Ok([gfn |-> d])

\* A plausible slip: the reserved range taken as 16 bits (0xffff).
PageStateResp_try_from_mask16(resp) ==
    LET p == parse_msr(resp)
        i == GhcbMsrInfo_try_from(p[1])
        d == p[2]
    IN IF ~i.ok THEN Err(i.e)
       ELSE IF i.v # "STATE_CHANGE_RESP" THEN Err(MismatchedInfo)
       ELSE IF BitAnd(d, LowMask(16)) # {} THEN Err(InvalidData)
       ELSE Ok([error_code |-> AsU32(Shr(d, 20))])

PageStateResp_try_from(resp) ==
    LET p == parse_msr(resp)
        i == GhcbMsrInfo_try_from(p[1])
        d == p[2]
    IN IF ~i.ok THEN Err(i.e)
       ELSE IF i.v # "STATE_CHANGE_RESP" THEN Err(MismatchedInfo)
       ELSE IF BitAnd(d, LowMask(20)) # {} THEN Err(InvalidData)
       ELSE Ok([error_code |-> AsU32(Shr(d, 20))])

\* A plausible slip: the reserved bits checked before the tag is resolved.
RunVmplResp_try_from_datafirst(resp) ==
    LET p == parse_msr(resp)
        i == GhcbMsrInfo_try_from(p[1])
        d == p[2]
    IN IF BitAnd(d, LowMask(20)) # {} THEN Err(InvalidData)
       ELSE IF ~i.ok THEN Err(i.e)
       ELSE IF i.v # "RUN_VMPL_RESP" THEN Err(MismatchedInfo)
       ELSE Ok([error_code |-> AsU32(Shr(d, 20))])

RunVmplResp_try_from(resp) ==
    LET p == parse_msr(resp)
        i == GhcbMsrInfo_try_from(p[1])
        d == p[2]
    IN IF ~i.ok THEN Err(i.e)
       ELSE IF i.v # "RUN_VMPL_RESP" THEN Err(MismatchedInfo)
       ELSE IF BitAnd(d, LowMask(20)) # {} THEN Err(InvalidData)
       ELSE Ok([error_code |-> AsU32(Shr(d, 20))])

FeatureSupportResp_try_from(resp) ==
    LET p == parse_msr(resp)
        i == GhcbMsrInfo_try_from(p[1])
        d == p[2]
    IN IF ~i.ok THEN Err(i.e)
       ELSE IF i.v # "FEAT_SUPPORT_RESP" THEN Err(MismatchedInfo)
       ELSE Ok([features |-> d])

\* A plausible slip: the termination path decodes like the other pairs.
TerminationResp_try_from_decoding(resp) ==
    LET i == GhcbMsrInfo_try_from(parse_msr(resp)[1])
    IN IF ~i.ok THEN Err(i.e) ELSE Err(ShouldNotReturn)

TerminationResp_try_from(resp) == Err(ShouldNotReturn)

\* type Resp, and Self::Resp::try_from(resp)
Resp_try_from(r, resp) ==
    CASE r.type = "SevInfoReq" -> SevInfoResp_try_from(resp)
      [] r.type = "CpuidReq" -> CpuidResp_try_from(resp)
      [] r.type = "ApResetHoldReq" -> ApResetHoldResp_try_from(resp)
      [] r.type = "PrefGhcbGpaReq" -> PrefGhcbGpaResp_try_from(resp)
      [] r.type = "RegisterGhcbReq" -> RegisterGhcbResp_try_from(resp)
      [] r.type = "PageStateReq" -> PageStateResp_try_from(resp)
      [] r.type = "RunVmplReq" -> RunVmplResp_try_from(resp)
      [] r.type = "FeatureSupportReq" -> FeatureSupportResp_try_from(resp)
      [] r.type = "TerminationReq" -> TerminationResp_try_from(resp)

\* RegisterGhcbReq's override of GhcbMsrRequest::response
RegisterGhcbReq_response(r, resp) ==
    LET x == RegisterGhcbResp_try_from(resp)
    IN IF ~x.ok THEN x
       ELSE IF x.v.gfn # r.data THEN Err(MismatchedData(x.v.gfn))
       ELSE x

\* GhcbMsrRequest::response: the default, and the one override.
response(r, resp) ==
    IF r.type = "RegisterGhcbReq"
    THEN RegisterGhcbReq_response(r, resp)
    ELSE Resp_try_from(r, resp)

----------------------------------------------------------------------------
(* The inputs the guest and the hypervisor choose from. *)

\* The values with at most MaxSetBits of the positions P set.
Sampled(P) == {s \in SUBSET P : Cardinality(s) <= MaxSetBits}

\* Guest frame numbers: within 40 bits, within 52 bits, and wider;
\* 0x1234 and 0x1235.
GfnSamples == Sampled({2, 39, 40, 51, 52, 63}) \cup {Bits(4660), Bits(4661)}

\* CPUID function numbers (u32), 0x8000_0001 among them.
FunctionSamples == Sampled({0, 12, 31})

CpuidRegs == {"EAX", "EBX", "ECX", "EDX"}

PageOps == {"Private", "Shared"}

TerminationReasons ==
    {"GeneralTermination", "GhcbProtRangeNotSupported", "SevSnpNotSupported"}

\* u8 arguments: VMPL levels and termination code sets.
U8Samples == {0, 1, 3, 15, 16, 255}

\* The discriminants of the enum.
ValidInfo == {AsDiscriminant(t) : t \in GhcbMsrInfo}

\* Info fields the hypervisor may write: every tag, and four unknown codes.
InfoSamples == ValidInfo \cup {3, 8, 2047, 4095}

\* Data fields the hypervisor may write (52 bits).
DataSamples == Sampled({0, 7, 8, 12, 19, 20, 36, 51})

U16 == 0..65535

NoRequest == [type |-> "none"]

NoResult == [ok |-> FALSE, e |-> [kind |-> "none"]]

----------------------------------------------------------------------------
(* The exchange: the guest builds a request, writes msr() to the register, *)
(* the hypervisor overwrites the register, and the guest parses the value  *)
(* it reads back with the request's response().                            *)

Init ==
    /\ pc = "start"
    /\ args = <<>>
    /\ req = NoRequest
    /\ msr = {}
    /\ hv = [info |-> 0, data |-> {}]
    /\ raw = {}
    /\ res = NoResult
    /\ val = 0
    /\ tres = NoResult

\* let req = SevInfoReq::new();
NewSevInfoReq ==
    /\ pc = "start"
    /\ pc' = "built"
    /\ args' = <<>>
    /\ req' = SevInfoReq_new
    /\ UNCHANGED <<msr, hv, raw, res, val, tres>>

NewCpuidReq ==
    /\ pc = "start"
    /\ pc' = "built"
    /\ \E f \in FunctionSamples, reg \in CpuidRegs :
          /\ args' = <<f, reg>>
          /\ req' = CpuidReq_new(f, reg)
    /\ UNCHANGED <<msr, hv, raw, res, val, tres>>

NewApResetHoldReq ==
    /\ pc = "start"
    /\ pc' = "built"
    /\ args' = <<>>
    /\ req' = ApResetHoldReq_new
    /\ UNCHANGED <<msr, hv, raw, res, val, tres>>

NewPrefGhcbGpaReq ==
    /\ pc = "start"
    /\ pc' = "built"
    /\ args' = <<>>
    /\ req' = PrefGhcbGpaReq_new
    /\ UNCHANGED <<msr, hv, raw, res, val, tres>>

NewRegisterGhcbReq ==
    /\ pc = "start"
    /\ pc' = "built"
    /\ \E gfn \in GfnSamples :
          /\ args' = <<gfn>>
          /\ req' = RegisterGhcbReq_new(gfn)
    /\ UNCHANGED <<msr, hv, raw, res, val, tres>>

NewPageStateReq ==
    /\ pc = "start"
    /\ pc' = "built"
    /\ \E gfn \in GfnSamples, op \in PageOps :
          /\ args' = <<gfn, op>>
          /\ req' = PageStateReq_new(gfn, op)
    /\ UNCHANGED <<msr, hv, raw, res, val, tres>>

NewRunVmplReq ==
    /\ pc = "start"
    /\ pc' = "built"
    /\ \E vmpl \in U8Samples :
          /\ args' = <<vmpl>>
          /\ req' = RunVmplReq_new(vmpl)
    /\ UNCHANGED <<msr, hv, raw, res, val, tres>>

NewFeatureSupportReq ==
    /\ pc = "start"
    /\ pc' = "built"
    /\ args' = <<>>
    /\ req' = FeatureSupportReq_new
    /\ UNCHANGED <<msr, hv, raw, res, val, tres>>

NewTerminationReq ==
    /\ pc = "start"
    /\ pc' = "built"
    /\ \E code_set \in U8Samples, reason \in TerminationReasons :
          /\ args' = <<code_set, reason>>
          /\ req' = TerminationReq_new(code_set, reason)
    /\ UNCHANGED <<msr, hv, raw, res, val, tres>>

\* wrmsr(GHCB_MSR, req.msr())
WriteMsr ==
    /\ pc = "built"
    /\ pc' = "sent"
    /\ msr' = Msr(req)
    /\ UNCHANGED <<args, req, hv, raw, res, val, tres>>

\* vmgexit(); raw = rdmsr(GHCB_MSR); req.response(raw).  The hypervisor
\* writes any Info field and any Data field, the request's own among them.
Response ==
    /\ pc = "sent"
    /\ \E i \in InfoSamples, d \in DataSamples \cup {parse_msr(msr)[2]} :
          /\ hv' = [info |-> i, data |-> d]
          /\ raw' = register_value(d, i)
          /\ res' = response(req, raw')
    /\ pc' = "done"
    /\ UNCHANGED <<args, req, msr, val, tres>>

Next ==
    \/ NewSevInfoReq
    \/ NewCpuidReq
    \/ NewApResetHoldReq
    \/ NewPrefGhcbGpaReq
    \/ NewRegisterGhcbReq
    \/ NewPageStateReq
    \/ NewRunVmplReq
    \/ NewFeatureSupportReq
    \/ NewTerminationReq
    \/ WriteMsr
    \/ Response

Spec == Init /\ [][Next]_vars

----------------------------------------------------------------------------
(* The tag registry on its own: GhcbMsrInfo::try_from over every u16. *)

InitTag ==
    /\ pc = "tag"
    /\ val \in U16
    /\ tres = NoResult
    /\ args = <<>>
    /\ req = NoRequest
    /\ msr = {}
    /\ hv = [info |-> 0, data |-> {}]
    /\ raw = {}
    /\ res = NoResult

TryFromU16 ==
    /\ pc = "tag"
    /\ pc' = "tagged"
    /\ tres' = GhcbMsrInfo_try_from(val)
    /\ UNCHANGED <<args, req, msr, hv, raw, res, val>>

NextTag == TryFromU16

SpecTag == InitTag /\ [][NextTag]_vars

----------------------------------------------------------------------------
(* What the claims speak of. *)

\* The response tag of each message pair; termination has none.
ResponseTagOf(type) ==
    CASE type = "SevInfoReq" -> {SEV_INFO_RESP}
      [] type = "CpuidReq" -> {CPUID_RESP}
      [] type = "ApResetHoldReq" -> {AP_RESET_HOLD_RESP}
      [] type = "PrefGhcbGpaReq" -> {PREF_GHCB_GPA_RESP}
      [] type = "RegisterGhcbReq" -> {REG_GHCB_GPA_RESP}
      [] type = "PageStateReq" -> {STATE_CHANGE_RESP}
      [] type = "RunVmplReq" -> {RUN_VMPL_RESP}
      [] type = "FeatureSupportReq" -> {FEAT_SUPPORT_RESP}
      [] type = "TerminationReq" -> {}

ResponseTags ==
    {SEV_INFO_RESP, CPUID_RESP, AP_RESET_HOLD_RESP, PREF_GHCB_GPA_RESP,
     REG_GHCB_GPA_RESP, STATE_CHANGE_RESP, RUN_VMPL_RESP, FEAT_SUPPORT_RESP}

\* The Data field of the register value the request sent.
SentData == {i - 12 : i \in {j \in msr : j >= 12}}

----------------------------------------------------------------------------
\* C1: the split is a round trip.  Once a request's msr() is written,
\* parse_msr of it is the request's info() and its data() masked to 52
\* bits; and for every valid tag t and every 52-bit data the hypervisor
\* writes, parse_msr((data << 12) | t) is (t, data).
C1_SplitRoundTrip ==
    /\ pc \in {"sent", "done"} =>
          parse_msr(msr)
              = <<AsDiscriminant(info(req)), {i \in data(req) : i < 52}>>
    /\ (pc = "done" /\ hv.info \in ValidInfo) =>
          /\ raw = {i + 12 : i \in hv.data} \cup Bits(hv.info)
          /\ parse_msr(raw) = <<hv.info, hv.data>>

\* A request whose data is wider than 52 bits was sent, and a response with
\* the widest tag and the top Data bit set was split.
C1_Witness ==
    /\ pc = "done"
    /\ 63 \in data(req)
    /\ hv.info = TERM_REQ
    /\ 51 \in hv.data

----------------------------------------------------------------------------
\* C2 as stated: for every response type, a raw value whose Info field is
\* the response tag of a different message pair decodes to MismatchedInfo.
C2_WrongTagRejectedByAll ==
    (/\ pc = "done"
     /\ hv.info \in ResponseTags \ ResponseTagOf(req.type))
        => res = Err(MismatchedInfo)

\* C2 amended: for every response type other than termination, a raw value
\* whose Info field is the response tag of a different message pair decodes
\* to MismatchedInfo, whatever its Data field.
C2_WrongTagRejected ==
    (/\ pc = "done"
     /\ req.type # "TerminationReq"
     /\ hv.info \in ResponseTags \ ResponseTagOf(req.type))
        => res = Err(MismatchedInfo)

\* An AP reset-hold response carrying the page-state response tag and no
\* data was rejected for its tag.
C2_Witness ==
    /\ pc = "done"
    /\ req.type = "ApResetHoldReq"
    /\ hv.info = STATE_CHANGE_RESP
    /\ hv.data = {}
    /\ res = Err(MismatchedInfo)

----------------------------------------------------------------------------
\* C3: the registration echo check.  For every gfn given to
\* RegisterGhcbReq::new and every response with tag REG_GHCB_GPA_RESP and
\* Data field d, response() is Ok with gfn = d when d is the Data field the
\* request sent, and MismatchedData(d) otherwise.
C3_EchoCheck ==
    (/\ pc = "done"
     /\ req.type = "RegisterGhcbReq"
     /\ hv.info = REG_GHCB_GPA_RESP)
        => IF hv.data = SentData
           THEN res = Ok([gfn |-> hv.data])
           ELSE res = Err(MismatchedData(hv.data))

\* The registration of 2^52 was answered with Data 0, the value sent, and
\* the echo check failed with MismatchedData(0).
C3_Divergence ==
    /\ pc = "done"
    /\ req.type = "RegisterGhcbReq"
    /\ args = <<{52}>>
    /\ hv = [info |-> REG_GHCB_GPA_RESP, data |-> {}]
    /\ SentData = {}
    /\ res = Err(MismatchedData({}))

----------------------------------------------------------------------------
\* C4: the tag registry is exhaustive.  For every variant of GhcbMsrInfo,
\* try_from of its discriminant is that variant; for every other u16 it is
\* InvalidInfo.
C4_TagExhaustive ==
    pc = "tagged" =>
        /\ \A t \in GhcbMsrInfo : val = AsDiscriminant(t) => tres = Ok(t)
        /\ val \notin ValidInfo => tres = Err(InvalidInfo)

\* 0xFFF was rejected.
C4_Witness ==
    /\ pc = "tagged"
    /\ val = 4095
    /\ tres = Err(InvalidInfo)

----------------------------------------------------------------------------
\* C5: reserved bits.  A page-state or VMPL-run response with its own tag
\* decodes to InvalidData when any of the low 20 bits of the Data field is
\* set, and otherwise succeeds with error_code the Data bits [20:52).
C5_ReservedBits ==
    (/\ pc = "done"
     /\ req.type \in {"PageStateReq", "RunVmplReq"}
     /\ hv.info \in ResponseTagOf(req.type))
        => IF \E i \in hv.data : i < 20
           THEN res = Err(InvalidData)
           ELSE res = Ok([error_code |-> {i - 20 : i \in hv.data}])

\* A page-state response with the lowest and the highest bit of the error
\* code set was decoded.
C5_Witness ==
    /\ pc = "done"
    /\ req.type = "PageStateReq"
    /\ hv = [info |-> STATE_CHANGE_RESP, data |-> {20, 51}]
    /\ res = Ok([error_code |-> {0, 31}])

----------------------------------------------------------------------------
\* C6: termination always fails.  For every TerminationReq and every raw
\* value, response() is ShouldNotReturn.
C6_TerminationFails ==
    (pc = "done" /\ req.type = "TerminationReq")
        => res = Err(ShouldNotReturn)

\* A termination request was answered with an unknown tag.
C6_Witness ==
    /\ pc = "done"
    /\ req.type = "TerminationReq"
    /\ hv.info = 4095
    /\ hv.data # {}
    /\ res = Err(ShouldNotReturn)

----------------------------------------------------------------------------
\* C7: the CPUID fields make a round trip.  CpuidReq::new(f, r) has Data
\* bits [18:20) = r, bits [20:52) = f and every other bit zero, and a
\* response with tag CPUID_RESP and the same Data decodes to function = f
\* and reg = r.
C7_CpuidRoundTrip ==
    req.type = "CpuidReq" =>
        /\ {i - 20 : i \in {j \in data(req) : j >= 20 /\ j < 52}} = args[1]
        /\ {i - 18 : i \in {j \in data(req) : j >= 18 /\ j < 20}}
               = Bits(CpuidReg_as(args[2]))
        /\ {i \in data(req) : i < 18 \/ i >= 52} = {}
        /\ (pc = "done" /\ hv.info = CPUID_RESP /\ hv.data = data(req))
               => res = Ok([function |-> args[1], reg |-> args[2]])

\* Function 0x8000_0001, register ECX, was asked for and echoed.
C7_Witness ==
    /\ pc = "done"
    /\ req.type = "CpuidReq"
    /\ args = <<{0, 31}, "ECX">>
    /\ hv = [info |-> CPUID_RESP, data |-> data(req)]
    /\ res.ok

----------------------------------------------------------------------------
\* C8: an AP reset-hold response with tag AP_RESET_HOLD_RESP decodes
\* successfully exactly when its Data field is nonzero; with Data = 0 it is
\* InvalidData.
C8_ApResetHoldZeroData ==
    (/\ pc = "done"
     /\ req.type = "ApResetHoldReq"
     /\ hv.info = AP_RESET_HOLD_RESP)
        => /\ res.ok <=> hv.data # {}
           /\ hv.data = {} => res = Err(InvalidData)

\* The tag validated and the zero Data was rejected.
C8_Witness ==
    /\ pc = "done"
    /\ req.type = "ApResetHoldReq"
    /\ hv = [info |-> AP_RESET_HOLD_RESP, data |-> {}]
    /\ res = Err(InvalidData)

----------------------------------------------------------------------------
\* C9: each constructor confines its parameters to their bit fields.  In
\* the Data field of PageStateReq::new(gfn, op), bits [0:40) are the low 40
\* bits of gfn and the field from bit 40 is the operation code, whatever
\* gfn is; in that of TerminationReq::new(code_set, reason), bits [0:4) are
\* the low 4 bits of code_set and the field from bit 4 is the reason,
\* whatever code_set is.
C9_FieldsConfined ==
    LET d == {i \in data(req) : i < 52}
    IN /\ req.type = "PageStateReq" =>
            /\ {i \in d : i < 40} = {i \in args[1] : i < 40}
            /\ {i - 40 : i \in {j \in d : j >= 40}}
                   = Bits(PageOp_as(args[2]))
       /\ req.type = "TerminationReq" =>
            /\ {i \in d : i < 4} = {i \in Bits(args[1]) : i < 4}
            /\ {i - 4 : i \in {j \in d : j >= 4}}
                   = Bits(TerminationReason_as(args[2]))

\* PageStateReq::new(1 << 40, PageOp::Shared) holds 3 in the operation
\* field.
C9_Divergence ==
    /\ pc = "built"
    /\ req.type = "PageStateReq"
    /\ args = <<{40}, "Shared">>
    /\ data(req) = {40, 41}

----------------------------------------------------------------------------
\* C10: the order of the checks, for every response type but termination.
\* An unknown Info field is InvalidInfo and a known but unexpected tag is
\* MismatchedInfo, whatever the Data field; InvalidData comes only with the
\* expected tag; and the registration's MismatchedData comes only with
\* REG_GHCB_GPA_RESP.
C10_CheckOrder ==
    (pc = "done" /\ req.type # "TerminationReq") =>
        /\ hv.info \notin ValidInfo => res = Err(InvalidInfo)
        /\ hv.info \in ValidInfo \ ResponseTagOf(req.type)
               => res = Err(MismatchedInfo)
        /\ res = Err(InvalidData) => hv.info \in ResponseTagOf(req.type)
        /\ (req.type = "RegisterGhcbReq" /\ ~res.ok
                /\ res.e.kind = "MismatchedData")
               => hv.info = REG_GHCB_GPA_RESP

\* A VMPL-run response with an unknown tag and a reserved bit set was
\* rejected for its tag.
C10_Witness ==
    /\ pc = "done"
    /\ req.type = "RunVmplReq"
    /\ hv.info = 3
    /\ 0 \in hv.data
    /\ res = Err(InvalidInfo)

----------------------------------------------------------------------------
\* C11: the SEV-info fields.  Every raw value with tag SEV_INFO_RESP
\* decodes successfully, whatever its low Data bits, with enc_bit_no the
\* Data bits [12:20), min_ver the Data bits [20:36) and max_ver the Data
\* bits [36:52).
C11_SevInfoFields ==
    (/\ pc = "done"
     /\ req.type = "SevInfoReq"
     /\ hv.info = SEV_INFO_RESP)
        => /\ res.ok
           /\ Bits(res.v.enc_bit_no)
                  = {i - 12 : i \in {j \in hv.data : j >= 12 /\ j < 20}}
           /\ Bits(res.v.min_ver)
                  = {i - 20 : i \in {j \in hv.data : j >= 20 /\ j < 36}}
           /\ Bits(res.v.max_ver)
                  = {i - 36 : i \in {j \in hv.data : j >= 36 /\ j < 52}}
           /\ res.v.enc_bit_no < 256
           /\ res.v.min_ver < 65536
           /\ res.v.max_ver < 65536

\* A response with the lowest Data bit and the lowest bit of the encryption
\* bit number set was decoded.
C11_Witness ==
    /\ pc = "done"
    /\ req.type = "SevInfoReq"
    /\ hv = [info |-> SEV_INFO_RESP, data |-> {0, 12}]
    /\ res = Ok([max_ver |-> 0, min_ver |-> 0, enc_bit_no |-> 1])

====
